---- MODULE Spec2Model ----
(***************************************************************************)
(* wodgen: a workout generator.  One run of the program (main) loads the   *)
(* exercise library and the snooze list, filters and shuffles the          *)
(* candidate pool, picks exercises group by group, adds a cooldown         *)
(* exercise and writes the workout and the snooze list back.  Runs follow  *)
(* one another; only the files on disk survive from one run to the next.   *)
(*                                                                         *)
(* Instants are counted in milliseconds since the epoch; the snooze file   *)
(* stores whole seconds (chrono::serde::ts_seconds).                       *)
(***************************************************************************)
EXTENDS Integers, Sequences, FiniteSets, TLC

\* ------------------------------------------------------------------ bounds

MaxGroups == 4          \* largest --groups value a run is started with
MaxLibrary == 3         \* largest number of rows in the exercise library
MaxRuns == 2            \* number of consecutive runs of the program
ClockStart == 500       \* the instant of the initial state, in milliseconds
MaxClock == 604800000   \* the clock stops advancing here (one snooze period)

\* --------------------------------------------------------------- constants

SNOOZE_PERIOD == 7
DefaultGroups == 2      \* the default of --groups

MsPerSec == 1000
SecsPerDay == 86400
SnoozeMs == SNOOZE_PERIOD * SecsPerDay * MsPerSec

ExerciseType == {"Cooldown", "Core", "Legs", "Pull", "Push"}
ExerciseCategory == {"Primary", "Secondary", "Accessory"}
ExerciseLevel == {"Beginner", "Intermediate", "Advanced"}
ExerciseProgramming == {"Distance", "Reps", "Time"}

\* Option<String>: None is <<>>, Some(s) is <<s>>.
None == <<>>
Some(s) == <<s>>

Exercise(n, t, c, l, p, b, g) ==
    [name |-> n, exercise_type |-> t, exercise_category |-> c,
     exercise_level |-> l, exercise_programming |-> p, bodyweight |-> b,
     goal |-> g, video |-> "v"]

\* ------------------------------------------------------------ pure helpers

Range(s) == {s[i] : i \in DOMAIN s}

RECURSIVE Concat(_)
Concat(ss) == IF ss = <<>> THEN <<>> ELSE Head(ss) \o Concat(Tail(ss))

\* Rust integer division truncates toward zero.
TruncDiv(a, b) == IF a >= 0 THEN a \div b ELSE -((-a) \div b)

\* chrono::serde::ts_seconds: an instant is written as whole seconds.
SerializeTs(ms) == ms \div MsPerSec
DeserializeTs(s) == s * MsPerSec

\* TimeDelta::num_days of (now - timestamp).
num_days(now_, timestamp) ==
    TruncDiv(TruncDiv(now_ - timestamp, MsPerSec), SecsPerDay)

\* The names of the exercise library, and their printed form.
to_title_case(n) ==
    CASE n = "push_up" -> "Push Up"
      [] n = "dip" -> "Dip"
      [] n = "band_press" -> "Band Press"
      [] n = "row__band" -> "Row - Band"
      [] n = "plank" -> "Plank"
      [] n = "walk" -> "Walk"
      [] n = "stretch" -> "Stretch"
      [] n = "pike_push_up" -> "Pike Push Up"
      [] n = "wall_slide" -> "Wall Slide"
      [] n = "x" -> "X"
      [] n = "" -> ""

FilterByTypeMutant(e, t) == e.exercise_type \in ExerciseType
filter_by_type(e, t) == e.exercise_type = t

FilterByLevelMutant(e, l) ==
    CASE l = "Beginner" -> e.exercise_level = "Beginner"
      [] l = "Intermediate" ->
            e.exercise_level = "Beginner" \/ e.exercise_level = "Intermediate"
      [] l = "Advanced" ->
            e.exercise_level = "Intermediate" \/ e.exercise_level = "Advanced"
filter_by_level(e, l) ==
    CASE l = "Beginner" -> e.exercise_level = "Beginner"
      [] l = "Intermediate" -> e.exercise_level = "Intermediate"
      [] l = "Advanced" ->
            e.exercise_level = "Intermediate" \/ e.exercise_level = "Advanced"

FilterByCategoryMutant(e, g, l, t) ==
    CASE g = 0 ->
            IF l = "Beginner" THEN e.exercise_category = "Secondary"
                              ELSE e.exercise_category = "Primary"
      [] g = 1 ->
            e.exercise_category = "Primary" \/ e.exercise_category = "Secondary"
      [] g = 2 ->
            e.exercise_category = "Secondary" \/ e.exercise_category = "Accessory"
      [] g >= 3 ->
            IF t = "Core" THEN e.exercise_category = "Secondary"
                          ELSE e.exercise_category = "Accessory"
filter_by_category(e, g, l, t) ==
    CASE g = 0 ->
            IF l = "Beginner" THEN e.exercise_category = "Secondary"
                              ELSE e.exercise_category = "Primary"
      [] g = 1 ->
            e.exercise_category = "Primary" \/ e.exercise_category = "Secondary"
      [] g = 2 ->
            IF t = "Core" THEN e.exercise_category = "Secondary"
                          ELSE e.exercise_category = "Secondary"
                                   \/ e.exercise_category = "Accessory"
      [] g >= 3 ->
            IF t = "Core" THEN e.exercise_category = "Secondary"
                          ELSE e.exercise_category = "Accessory"

FromExerciseMutant(group_, e) ==
    LET marks == CASE e.exercise_programming = "Distance" -> <<"X", "", "", "">>
                   [] e.exercise_programming = "Reps" -> <<"", "", "X", "X">>
                   [] e.exercise_programming = "Time" -> <<"", "", "X", "">>
    IN  [group |-> group_, name |-> to_title_case(e.name),
         sets |-> marks[4], distance |-> marks[1], time |-> marks[2],
         reps |-> marks[3],
         goal |-> IF e.goal = None THEN "" ELSE e.goal[1],
         video |-> e.video]

\* WorkoutExercise::from_exercise.
from_exercise(group_, e) ==
    LET marks == CASE e.exercise_programming = "Distance" -> <<"X", "", "", "">>
                   [] e.exercise_programming = "Reps" -> <<"", "", "X", "">>
                   [] e.exercise_programming = "Time" -> <<"", "X", "", "">>
    IN  [group |-> group_, name |-> to_title_case(e.name),
         sets |-> marks[4], distance |-> marks[1], time |-> marks[2],
         reps |-> marks[3],
         goal |-> IF e.goal = None THEN "" ELSE e.goal[1],
         video |-> e.video]

\* The group of a row: the loop's group shifted past the Skill Block.
GroupIndexMutant(g) == g + 1
GroupIndex(g) == g + 2

\* The placeholder row generate_workout starts the workout with.
SkillBlock ==
    [group |-> 1, name |-> "Skill Block", sets |-> "", distance |-> "",
     time |-> "", reps |-> "", goal |-> "", video |-> ""]

\* Vec::swap_remove at the (1-based) index i: the last element takes its place.
swap_remove(s, i) ==
    [j \in 1..(Len(s) - 1) |-> IF j = i THEN s[Len(s)] ELSE s[j]]

\* Every order slice::shuffle can leave the vector in.
shuffle_vector(s) ==
    {[i \in 1..Len(s) |-> s[f[i]]] : f \in Permutations(1..Len(s))}

\* ------------------------------------------------------------------ inputs

\* The rows an exercise library is drawn from: the file a row is in and the
\* exercise it holds.  The fourth row sits in push.csv with the type Pull.
Library ==
    << [file |-> "Push",
        ex |-> Exercise("push_up", "Push", "Primary", "Intermediate", "Reps",
                        TRUE, Some("Strength"))],
       [file |-> "Push",
        ex |-> Exercise("dip", "Push", "Secondary", "Beginner", "Reps",
                        TRUE, None)],
       [file |-> "Push",
        ex |-> Exercise("band_press", "Push", "Accessory", "Advanced", "Reps",
                        FALSE, None)],
       [file |-> "Push",
        ex |-> Exercise("row__band", "Pull", "Primary", "Intermediate", "Reps",
                        FALSE, None)],
       [file |-> "Core",
        ex |-> Exercise("plank", "Core", "Secondary", "Intermediate", "Time",
                        TRUE, Some("Endurance"))],
       [file |-> "Cooldown",
        ex |-> Exercise("walk", "Cooldown", "Primary", "Intermediate",
                        "Distance", TRUE, None)],
       [file |-> "Cooldown",
        ex |-> Exercise("stretch", "Cooldown", "Secondary", "Beginner", "Time",
                        TRUE, Some("Mobility"))] >>

\* The content of the file of type t when the library holds the rows `keep`.
RECURSIVE FileRows(_, _, _)
FileRows(t, keep, i) ==
    IF i > Len(Library) THEN <<>>
    ELSE (IF i \in keep /\ Library[i].file = t THEN <<Library[i].ex>> ELSE <<>>)
         \o FileRows(t, keep, i + 1)

Catalogs ==
    {[t \in ExerciseType |-> FileRows(t, keep, 1)] :
        keep \in {k \in SUBSET (1..Len(Library)) : Cardinality(k) <= MaxLibrary}}

\* The --types values a run is started with.
TypeLists ==
    {<<"Push">>, <<"Core", "Push">>, <<"Push", "Push">>, <<"Cooldown", "Push">>}

Requests ==
    [types : TypeLists, level : ExerciseLevel, groups : 0..MaxGroups,
     bodyweight : BOOLEAN]

\* The requests of the runs that follow one another: --groups and
\* --bodyweight are left at their defaults.
RerunRequests == {r \in Requests : r.groups = DefaultGroups /\ r.bodyweight}

NoRequest == [types |-> <<>>, level |-> "Intermediate", groups |-> 0,
              bodyweight |-> TRUE]

\* The clock advances between runs by one of these steps.
ClockSteps == {SnoozeMs - 2 * ClockStart, SnoozeMs - ClockStart}

\* ------------------------------------------------------------------- state

VARIABLES
    now,                 \* Utc::now(), in milliseconds
    catalog,             \* the exercise library: file type -> rows
    snoozedFile,         \* snoozed.csv: rows of (name, timestamp in seconds)
    workoutFile,         \* the workout file last written (<<>>: none yet)
    pc,                  \* where the running process is in main
    args,                \* Args of the running process
    cooldown_exercises,  \* main's local
    snoozed_exercises,   \* main's local
    relevant_exercises,  \* main's local: the candidate pool
    workout,             \* the rows generated so far
    group,               \* generate_workout's outer loop variable
    slot,                \* position of the inner loop in exercise_types
    exercises_to_remove, \* generate_workout's per-group local
    loaded,              \* what load_snoozed_exercises returned to this run
    picks,               \* the exercises this run picked, in order (the log)
    prev,                \* the snooze rows the previous run wrote for its picks
    runs,                \* number of runs started so far
    probe,               \* the arguments of a function evaluated on its own
    verdict              \* its result, as an Option

vars == <<now, catalog, snoozedFile, workoutFile, pc, args, cooldown_exercises,
          snoozed_exercises, relevant_exercises, workout, group, slot,
          exercises_to_remove, loaded, picks, prev, runs, probe, verdict>>

files == <<catalog, snoozedFile, workoutFile>>
probes == <<probe, verdict>>
locals == <<args, cooldown_exercises, snoozed_exercises, relevant_exercises,
            workout, group, slot, exercises_to_remove, loaded, picks>>

\* --------------------------------------------------------------- operations

Names(s) == {s[i].name : i \in DOMAIN s}

\* read_csv of snoozed.csv followed by the filter of load_snoozed_exercises.
LoadSnoozedMutant(file, now_) ==
    LET rows == [i \in DOMAIN file |->
                    [name |-> file[i].name,
                     timestamp |-> DeserializeTs(file[i].timestamp)]]
        Active(e) == num_days(now_, e.timestamp) <= SNOOZE_PERIOD
    IN  SelectSeq(rows, Active)
load_snoozed_exercises(file, now_) ==
    LET rows == [i \in DOMAIN file |->
                    [name |-> file[i].name,
                     timestamp |-> DeserializeTs(file[i].timestamp)]]
        Active(e) == num_days(now_, e.timestamp) < SNOOZE_PERIOD
    IN  SelectSeq(rows, Active)

\* write_csv of the snooze list.
WriteSnoozedMutant(snoozed) ==
    [i \in 1..(Len(snoozed) - 1) |->
        [name |-> snoozed[i + 1].name,
         timestamp |-> SerializeTs(snoozed[i + 1].timestamp)]]
WriteSnoozed(snoozed) ==
    [i \in DOMAIN snoozed |->
        [name |-> snoozed[i].name,
         timestamp |-> SerializeTs(snoozed[i].timestamp)]]

\* main's filter of the cooldown exercises.
FilterCooldown(cooldown, snoozed) ==
    LET Keep(e) == ~(\E i \in DOMAIN snoozed : snoozed[i].name = e.name)
    IN  SelectSeq(cooldown, Keep)

load_relevant_exercises(exercise_types, file_paths) ==
    Concat([i \in DOMAIN exercise_types |-> file_paths[exercise_types[i]]])

\* filter_exercises before its shuffle: one retain per snoozed exercise.
RECURSIVE RetainNotSnoozed(_, _, _)
RetainNotSnoozed(pool, snoozed, i) ==
    IF i > Len(snoozed) THEN pool
    ELSE LET Keep(e) == e.name # snoozed[i].name
         IN  RetainNotSnoozed(SelectSeq(pool, Keep), snoozed, i + 1)

FilterExercisesMutant(relevant, bodyweight, snoozed) ==
    LET IsBodyweight(e) == e.bodyweight
        kept == IF bodyweight THEN SelectSeq(relevant, IsBodyweight) ELSE relevant
    IN  shuffle_vector(kept)
filter_exercises(relevant, bodyweight, snoozed) ==
    LET IsBodyweight(e) == e.bodyweight
        kept == IF bodyweight THEN SelectSeq(relevant, IsBodyweight) ELSE relevant
    IN  shuffle_vector(RetainNotSnoozed(kept, snoozed, 1))

\* The pick of one (group, type) slot: the first exercise of the pool that
\* passes the three filters, as an Option.
PickForMutant(pool, g, l, t) ==
    LET Passes(e) == /\ filter_by_type(e, t)
                     /\ filter_by_level(e, l)
                     /\ filter_by_category(e, g, l, t)
        OfType(e) == filter_by_type(e, t)
        passing == SelectSeq(pool, Passes)
        fallback == SelectSeq(pool, OfType)
    IN  IF passing # <<>> THEN Some(Head(passing))
        ELSE IF fallback # <<>> THEN Some(Head(fallback)) ELSE None
PickFor(pool, g, l, t) ==
    LET Passes(e) == /\ filter_by_type(e, t)
                     /\ filter_by_level(e, l)
                     /\ filter_by_category(e, g, l, t)
        passing == SelectSeq(pool, Passes)
    IN  IF passing = <<>> THEN None ELSE Some(Head(passing))

\* The retain that ends a group.
RemovePicked(pool, to_remove) ==
    LET Keep(e) == e.name \notin Range(to_remove)
    IN  SelectSeq(pool, Keep)

SnoozedExercise(n, ts) == [name |-> n, timestamp |-> ts]

\* ------------------------------------------------------------------ actions

NoProbe == [fn |-> "none", e |-> Exercise("", "Push", "Primary", "Beginner",
                                          "Reps", TRUE, None),
            g |-> 0, l |-> "Beginner", t |-> "Push", file |-> <<>>, now |-> 0]

Idle ==
    /\ snoozedFile = <<>>
    /\ workoutFile = <<>>
    /\ args = NoRequest
    /\ cooldown_exercises = <<>>
    /\ snoozed_exercises = <<>>
    /\ relevant_exercises = <<>>
    /\ workout = <<>>
    /\ group = 0
    /\ slot = 1
    /\ exercises_to_remove = <<>>
    /\ loaded = <<>>
    /\ picks = <<>>
    /\ prev = <<>>
    /\ runs = 0

Init ==
    /\ now = ClockStart
    /\ catalog \in Catalogs
    /\ pc = "idle"
    /\ probe = NoProbe
    /\ verdict = None
    /\ Idle

\* Time passes between two runs.
Tick ==
    /\ pc = "idle"
    /\ \E d \in ClockSteps :
          /\ now + d <= MaxClock
          /\ now' = now + d
    /\ UNCHANGED <<probes, files, pc, locals, prev, runs>>

\* main up to the strength loop of generate_workout: the arguments are
\* parsed, the files are read, the pools are filtered and shuffled, and the
\* workout starts with the Skill Block.
Start(requests) ==
    /\ pc = "idle"
    /\ runs < MaxRuns
    /\ runs' = runs + 1
    /\ \E r \in requests :
          LET snoozed == load_snoozed_exercises(snoozedFile, now)
              cooldown == FilterCooldown(catalog["Cooldown"], snoozed)
              relevant == load_relevant_exercises(r.types, catalog)
          IN  /\ args' = r
              /\ cooldown_exercises' = cooldown
              /\ snoozed_exercises' = snoozed
              /\ loaded' = snoozed
              /\ relevant_exercises'
                    \in filter_exercises(relevant, r.bodyweight, snoozed)
    /\ workout' = <<SkillBlock>>
    /\ group' = 0
    /\ slot' = 1
    /\ exercises_to_remove' = <<>>
    /\ picks' = <<>>
    /\ pc' = "generate"
    /\ UNCHANGED <<probes, now, files, prev>>

\* A file of the library or the snooze file cannot be read: main returns the
\* error before anything is generated.
LoadFail ==
    /\ pc = "idle"
    /\ runs < MaxRuns
    /\ runs' = runs + 1
    /\ pc' = "failed"
    /\ UNCHANGED <<probes, now, files, locals, prev>>

\* One pass of the inner loop of generate_workout: the slot of one type in
\* the current group.
PickSlot ==
    /\ pc = "generate"
    /\ group < args.groups
    /\ slot <= Len(args.types)
    /\ LET t == args.types[slot]
           exercise == PickFor(relevant_exercises, group, args.level, t)
       IN  IF exercise # None
           THEN /\ exercises_to_remove'
                      = Append(exercises_to_remove, exercise[1].name)
                /\ snoozed_exercises'
                      = Append(snoozed_exercises,
                               SnoozedExercise(exercise[1].name, now))
                /\ workout' = Append(workout, from_exercise(GroupIndex(group), exercise[1]))
                /\ picks' = Append(picks, [name |-> exercise[1].name,
                                           group |-> group, slot |-> slot,
                                           type |-> t, kind |-> "strength",
                                           at |-> now])
           ELSE UNCHANGED <<exercises_to_remove, snoozed_exercises, workout,
                            picks>>
    /\ slot' = slot + 1
    /\ UNCHANGED <<probes, now, files, pc, args, cooldown_exercises, relevant_exercises,
                   group, loaded, prev, runs>>

\* The end of one pass of the outer loop: the exercises picked in the group
\* leave the pool.
EndGroup ==
    /\ pc = "generate"
    /\ group < args.groups
    /\ slot > Len(args.types)
    /\ relevant_exercises' = RemovePicked(relevant_exercises, exercises_to_remove)
    /\ group' = group + 1
    /\ slot' = 1
    /\ exercises_to_remove' = <<>>
    /\ UNCHANGED <<probes, now, files, pc, args, cooldown_exercises, snoozed_exercises,
                   workout, loaded, picks, prev, runs>>

\* add_cooldown_exercise with a cooldown exercise left to pick.
AddCooldown ==
    /\ pc = "generate"
    /\ group = args.groups
    /\ cooldown_exercises # <<>>
    /\ \E index \in DOMAIN cooldown_exercises :
          LET cooldown_exercise == cooldown_exercises[index]
          IN  /\ cooldown_exercises' = swap_remove(cooldown_exercises, index)
              /\ snoozed_exercises'
                    = Append(snoozed_exercises,
                             SnoozedExercise(cooldown_exercise.name, now))
              /\ workout' = Append(workout,
                                   from_exercise(GroupIndex(args.groups), cooldown_exercise))
              /\ picks' = Append(picks, [name |-> cooldown_exercise.name,
                                         group |-> args.groups,
                                         slot |-> 0, type |-> "Cooldown",
                                         kind |-> "cooldown", at |-> now])
    /\ pc' = "save_workout"
    /\ UNCHANGED <<probes, now, files, args, relevant_exercises, group, slot,
                   exercises_to_remove, loaded, prev, runs>>

\* add_cooldown_exercise with none left: remove_random returns None and the
\* unwrap panics.
CooldownPanicPersists ==
    /\ pc = "generate"
    /\ group = args.groups
    /\ cooldown_exercises = <<>>
    /\ snoozedFile' = WriteSnoozed(snoozed_exercises)
    /\ pc' = "panicked"
    /\ UNCHANGED <<probes, now, catalog, workoutFile, locals, prev, runs>>
CooldownPanicMutant ==
    /\ pc = "generate"
    /\ group = args.groups
    /\ cooldown_exercises = <<>>
    /\ pc' = "save_workout"
    /\ UNCHANGED <<probes, now, files, locals, prev, runs>>
CooldownPanic ==
    /\ pc = "generate"
    /\ group = args.groups
    /\ cooldown_exercises = <<>>
    /\ pc' = "panicked"
    /\ UNCHANGED <<probes, now, files, locals, prev, runs>>

save_workout ==
    /\ pc = "save_workout"
    /\ workoutFile' = workout
    /\ pc' = "update_snoozed"
    /\ UNCHANGED <<probes, now, catalog, snoozedFile, locals, prev, runs>>

update_snoozed_exercises ==
    /\ pc = "update_snoozed"
    /\ snoozedFile' = WriteSnoozed(snoozed_exercises)
    /\ pc' = "done"
    /\ UNCHANGED <<probes, now, catalog, workoutFile, locals, prev, runs>>

\* The process ends; the next run starts from the files alone.
ProcessExit ==
    /\ pc \in {"done", "failed", "panicked"}
    /\ prev' = IF pc = "done"
               THEN [i \in DOMAIN picks |->
                        [name |-> picks[i].name,
                         timestamp |-> SerializeTs(picks[i].at)]]
               ELSE <<>>
    /\ pc' = "idle"
    /\ args' = NoRequest
    /\ cooldown_exercises' = <<>>
    /\ snoozed_exercises' = <<>>
    /\ relevant_exercises' = <<>>
    /\ workout' = <<>>
    /\ group' = 0
    /\ slot' = 1
    /\ exercises_to_remove' = <<>>
    /\ loaded' = <<>>
    /\ picks' = <<>>
    /\ UNCHANGED <<probes, now, files, runs>>

\* The runs of the program, one after another.
Next ==
    \/ Tick
    \/ Start(RerunRequests)
    \/ LoadFail
    \/ PickSlot
    \/ EndGroup
    \/ AddCooldown
    \/ CooldownPanic
    \/ save_workout
    \/ update_snoozed_exercises
    \/ ProcessExit

Spec == Init /\ [][Next]_vars

\* One run of the program, with any request.
NextRun ==
    \/ Start(Requests)
    \/ LoadFail
    \/ PickSlot
    \/ EndGroup
    \/ AddCooldown
    \/ CooldownPanic
    \/ save_workout
    \/ update_snoozed_exercises

SpecRun == Init /\ [][NextRun]_vars

\* ------------------------------------------- the functions on their own

MaxSnoozeRows == 2      \* largest snooze file a probe reads

\* One exercise of every type, category and level.
ProbeExercises ==
    {Exercise("x", t, c, l, "Reps", TRUE, None) :
        t \in ExerciseType, c \in ExerciseCategory, l \in ExerciseLevel}

\* Snooze rows (whole seconds) and instants (milliseconds) on both sides of
\* the end of the snooze period.
ProbeRows == [name : {"push_up", "walk"}, timestamp : {0, 1}]
ProbeFiles ==
    UNION {[1..n -> ProbeRows] : n \in 0..MaxSnoozeRows}
\* The exercises from_exercise is applied to: every programming, with and
\* without a goal.
ProbeProgrammed ==
    {Exercise("x", t, "Primary", "Intermediate", p, b, g) :
        t \in {"Push", "Cooldown"}, p \in ExerciseProgramming, b \in BOOLEAN,
        g \in {None, Some("Strength")}}

ProbeInstants ==
    {0, SnoozeMs - MsPerSec, SnoozeMs - 1, SnoozeMs, SnoozeMs + 1,
     SnoozeMs + MsPerSec - 1, SnoozeMs + MsPerSec, 2 * SnoozeMs}

Probes ==
    {[NoProbe EXCEPT !.fn = "filter_by_level", !.e = e, !.l = l] :
        e \in ProbeExercises, l \in ExerciseLevel}
    \cup
    {[NoProbe EXCEPT !.fn = "filter_by_category", !.e = x[1], !.g = x[2],
                     !.l = x[3], !.t = x[4]] :
        x \in ProbeExercises \X (0..(MaxGroups + 1)) \X ExerciseLevel
                 \X ExerciseType}
    \cup
    {[NoProbe EXCEPT !.fn = "load_snoozed_exercises", !.file = f, !.now = n] :
        f \in ProbeFiles, n \in ProbeInstants}
    \cup
    {[NoProbe EXCEPT !.fn = "from_exercise", !.e = e, !.g = g] :
        e \in ProbeProgrammed, g \in 0..(MaxGroups + 2)}

InitPure ==
    /\ now = ClockStart
    /\ catalog = [t \in ExerciseType |-> <<>>]
    /\ pc = "probe"
    /\ probe \in Probes
    /\ verdict = None
    /\ Idle

Probed(result) ==
    /\ pc = "probe"
    /\ verdict' = Some(result)
    /\ pc' = "probed"
    /\ UNCHANGED <<now, files, locals, prev, runs, probe>>

ProbeLevel ==
    /\ probe.fn = "filter_by_level"
    /\ Probed(filter_by_level(probe.e, probe.l))

ProbeCategory ==
    /\ probe.fn = "filter_by_category"
    /\ Probed(filter_by_category(probe.e, probe.g, probe.l, probe.t))

ProbeSnoozed ==
    /\ probe.fn = "load_snoozed_exercises"
    /\ Probed(load_snoozed_exercises(probe.file, probe.now))

ProbeFrom ==
    /\ probe.fn = "from_exercise"
    /\ Probed(from_exercise(probe.g, probe.e))

NextPure ==
    \/ ProbeLevel
    \/ ProbeCategory
    \/ ProbeSnoozed
    \/ ProbeFrom

SpecPure == InitPure /\ [][NextPure]_vars

\* ------------------------------------------------------------------ claims

LevelRank(l) ==
    CASE l = "Beginner" -> 1 [] l = "Intermediate" -> 2 [] l = "Advanced" -> 3

ProbedWith(fn) == pc = "probed" /\ probe.fn = fn

\* The rows of a snooze file that are less than 7 days old at the instant n,
\* as load_snoozed_exercises returns them.
FreshRows(file, n) ==
    LET Fresh(r) == n - r.timestamp * MsPerSec < SnoozeMs
        kept == SelectSeq(file, Fresh)
    IN  [i \in DOMAIN kept |->
            [name |-> kept[i].name, timestamp |-> kept[i].timestamp * MsPerSec]]

\* C3: load_snoozed_exercises keeps a snooze entry exactly when
\* now - timestamp is less than 7 days: every entry 7 days old or older is
\* left out, every younger one (one a second short of 7 days too) is kept, in
\* the order of the file.
C3_ActiveIffUnderSevenDays ==
    ProbedWith("load_snoozed_exercises")
        => verdict = Some(FreshRows(probe.file, probe.now))

\* An entry exactly 7 days old is left out and the next one, a second short
\* of 7 days, is kept.
C3_Witness ==
    /\ ProbedWith("load_snoozed_exercises")
    /\ probe.now = SnoozeMs
    /\ Len(probe.file) = 2
    /\ probe.file[1].timestamp = 0
    /\ probe.file[2].timestamp = 1
    /\ Len(verdict[1]) = 1
    /\ verdict[1][1].name = probe.file[2].name

\* C5: filter_by_category(e, g, l, t) is true exactly when: g = 0 and
\* (l = Beginner and e is Secondary, or l is not Beginner and e is Primary);
\* g = 1 and e is Primary or Secondary; g = 2 and (t = Core and e is
\* Secondary, or t is not Core and e is Secondary or Accessory); g >= 3 and
\* (t = Core and e is Secondary, or t is not Core and e is Accessory).
C5_CategoryByGroup ==
    ProbedWith("filter_by_category") =>
        LET e == probe.e
            g == probe.g
            l == probe.l
            t == probe.t
            c == e.exercise_category
        IN  verdict[1] <=>
              \/ g = 0 /\ \/ l = "Beginner" /\ c = "Secondary"
                          \/ l # "Beginner" /\ c = "Primary"
              \/ g = 1 /\ c \in {"Primary", "Secondary"}
              \/ g = 2 /\ \/ t = "Core" /\ c = "Secondary"
                          \/ t # "Core" /\ c \in {"Secondary", "Accessory"}
              \/ g >= 3 /\ \/ t = "Core" /\ c = "Secondary"
                           \/ t # "Core" /\ c = "Accessory"

\* A Core slot of group 2 turns an Accessory exercise down.
C5_Witness ==
    /\ ProbedWith("filter_by_category")
    /\ probe.g = 2
    /\ probe.t = "Core"
    /\ probe.e.exercise_category = "Accessory"
    /\ verdict = Some(FALSE)

C7_LevelAtOrBelow ==
    ProbedWith("filter_by_level") =>
        (verdict[1] <=> LevelRank(probe.e.exercise_level) <= LevelRank(probe.l))

\* The run is past add_cooldown_exercise.
Completed == pc \in {"save_workout", "update_snoozed", "done"}

IsPrefix(s, t) == Len(s) <= Len(t) /\ SubSeq(t, 1, Len(s)) = s

\* The snooze rows a run writes for its picks.
PickRows(ps) ==
    [i \in DOMAIN ps |->
        [name |-> ps[i].name, timestamp |-> SerializeTs(ps[i].at)]]

\* C1: the workout of generate_workout followed by add_cooldown_exercise
\* holds no two rows, the Skill Block aside, that come from the same source
\* exercise name, whatever the pools, the type list, the level and the
\* number of groups.
C1_NoDuplicateNames ==
    \A i, j \in DOMAIN picks : i # j => picks[i].name # picks[j].name

\* C2: when a run completed and wrote its snooze list and the next run
\* starts while the rows of its picks are less than 7 days old, none of those
\* exercises is in the next run's candidate pool or cooldown pool, and none
\* is picked.
C2_PreviousPicksExcluded ==
    pc \in {"generate", "save_workout", "update_snoozed", "done", "panicked"} =>
        \A i \in DOMAIN prev :
            now - prev[i].timestamp * MsPerSec < SnoozeMs =>
                /\ prev[i].name \notin Names(relevant_exercises)
                /\ prev[i].name \notin Names(cooldown_exercises)
                /\ prev[i].name \notin Names(picks)

\* The second run is generating with the first run's picks still fresh and
\* an exercise left in its pool.
C2_Witness ==
    /\ pc = "generate"
    /\ prev # <<>>
    /\ \A i \in DOMAIN prev : now - prev[i].timestamp * MsPerSec < SnoozeMs
    /\ Names(prev) \cap Names(catalog["Push"]) # {}
    /\ Names(prev) \cap Names(catalog["Cooldown"]) # {}
    /\ relevant_exercises # <<>>

\* The rows of a snooze file that are less than 7 days old at the instant n.
ActiveRows(file, n) ==
    LET Fresh(r) == n - r.timestamp * MsPerSec < SnoozeMs
    IN  SelectSeq(file, Fresh)

\* C4: the snooze list a completed run writes is the rows that were active
\* when it started, unchanged and in their order, then one row per pick in
\* pick order (strength picks, then the cooldown pick); while the run
\* generates, the snooze list only grows at its end.
C4_SnoozeListAppendOnly ==
    [][/\ (pc = "update_snoozed" /\ pc' = "done")
            => snoozedFile' = ActiveRows(snoozedFile, now) \o PickRows(picks)
       /\ (pc \in {"generate", "save_workout", "update_snoozed"})
            => /\ IsPrefix(snoozed_exercises, snoozed_exercises')
               /\ IsPrefix(loaded, snoozed_exercises')
               /\ Len(snoozed_exercises') = Len(loaded') + Len(picks')]_vars

\* A run that loaded active rows has written them back followed by the rows
\* of its own strength and cooldown picks.
C4_Witness ==
    /\ pc = "done"
    /\ loaded # <<>>
    /\ Len(picks) >= 2
    /\ Len(snoozedFile) = Len(loaded) + Len(picks)

\* No exercise of the pool passes the filters of the current slot.
EmptySlot ==
    /\ pc = "generate"
    /\ group < args.groups
    /\ slot <= Len(args.types)
    /\ ~ \E i \in DOMAIN relevant_exercises :
            /\ filter_by_type(relevant_exercises[i], args.types[slot])
            /\ filter_by_level(relevant_exercises[i], args.level)
            /\ filter_by_category(relevant_exercises[i], group, args.level,
                                  args.types[slot])

\* C8: a slot no exercise of the pool passes the filters of raises no error,
\* adds no row and no snooze entry, leaves the pool as it is, and the run
\* goes on with the next slot.
C8_EmptySlotSkipped ==
    [][EmptySlot =>
          /\ pc' = "generate"
          /\ workout' = workout
          /\ snoozed_exercises' = snoozed_exercises
          /\ relevant_exercises' = relevant_exercises
          /\ exercises_to_remove' = exercises_to_remove
          /\ group' = group
          /\ slot' = slot + 1]_vars

\* The run completed with a pick in a later group after a group that
\* produced no row at all.
C8_Witness ==
    /\ pc = "done"
    /\ picks # <<>>
    /\ picks[1].kind = "strength"
    /\ picks[1].group > 0
    /\ Names(relevant_exercises) # {}

\* The last row of a workout is the row of a cooldown pick.
EndsWithCooldown(rows, ps) ==
    /\ ps # <<>>
    /\ ps[Len(ps)].kind = "cooldown"
    /\ Len(rows) = Len(ps) + 1
    /\ rows[Len(rows)].name = to_title_case(ps[Len(ps)].name)

\* C9: with the cooldown pool empty when add_cooldown_exercise is reached
\* the run ends in a fatal error and writes nothing; a run never completes
\* with a workout that lacks its cooldown row.
C9_EmptyCooldownIsFatal ==
    [][/\ (pc = "generate" /\ group = args.groups /\ cooldown_exercises = <<>>)
            => (pc' = "panicked" /\ UNCHANGED files)
       /\ pc' \in {"save_workout", "update_snoozed", "done"}
            => EndsWithCooldown(workout', picks')
       /\ pc' = "done" => workoutFile' = workout']_vars

\* A run whose cooldown exercises are all snoozed panicked after it had
\* picked a strength exercise.
C9_Witness ==
    /\ pc = "panicked"
    /\ catalog["Cooldown"] # <<>>
    /\ cooldown_exercises = <<>>
    /\ picks # <<>>
    /\ workoutFile # workout

\* C10: in a completed workout for N groups the first row is the Skill Block
\* with group 1, the row of every strength pick made in group g has group
\* g + 2, the rows are in pick order (groups ascending, type order within a
\* group), and the last row is the one cooldown pick with group N + 2.
C10_RowGroups ==
    Completed =>
        /\ workout[1] = SkillBlock
        /\ workout[1].group = 1
        /\ Len(workout) = Len(picks) + 1
        /\ \A i \in DOMAIN picks :
              /\ workout[i + 1].name = to_title_case(picks[i].name)
              /\ workout[i + 1].group = picks[i].group + 2
              /\ picks[i].kind = "cooldown" <=> i = Len(picks)
              /\ picks[i].kind = "strength" => picks[i].group \in 0..(args.groups - 1)
              /\ picks[i].kind = "cooldown" => picks[i].group = args.groups
        /\ \A i, j \in 1..(Len(picks) - 1) :
              i < j => \/ picks[i].group < picks[j].group
                       \/ /\ picks[i].group = picks[j].group
                          /\ picks[i].slot < picks[j].slot
        /\ \A i, j \in DOMAIN workout : i < j => workout[i].group <= workout[j].group

\* A completed workout of three groups or more with rows in the first and
\* in the last group.
C10_Witness ==
    /\ pc = "done"
    /\ args.groups >= 3
    /\ Len(picks) >= 3
    /\ picks[1].group = 0
    /\ picks[Len(picks) - 1].group = args.groups - 1

\* The column of a row that from_exercise marks for a programming.
MarkedColumn(p) ==
    CASE p = "Distance" -> "distance" [] p = "Time" -> "time"
      [] p = "Reps" -> "reps"

\* C12: from_exercise sets exactly one of distance, time and reps to "X" and
\* the other two to "", the one being determined by the exercise's
\* programming alone; sets is always empty, group is the given group, and
\* goal is "" when the exercise has no goal.
C12_FromExerciseMarks ==
    ProbedWith("from_exercise") =>
        LET w == verdict[1]
            columns == {"distance", "time", "reps"}
        IN  /\ \A c \in columns :
                w[c] = IF c = MarkedColumn(probe.e.exercise_programming)
                       THEN "X" ELSE ""
            /\ Cardinality({c \in columns : w[c] = "X"}) = 1
            /\ w.sets = ""
            /\ w.group = probe.g
            /\ probe.e.goal = None => w.goal = ""
            /\ probe.e.goal # None => w.goal = probe.e.goal[1]

C12_Witness ==
    /\ ProbedWith("from_exercise")
    /\ probe.e.exercise_programming = "Time"
    /\ probe.e.goal = None
    /\ probe.g = MaxGroups + 2
    /\ verdict[1].time = "X"
    /\ verdict[1].goal = ""

\* C13: a picked exercise is removed from the pool immediately after its
\* pick: the pool that any later slot looks at, the remaining type slots of
\* the same group included, no longer holds it.
C13_RemovedImmediately ==
    (pc = "generate" /\ slot <= Len(args.types)) =>
        \A i \in DOMAIN picks : picks[i].name \notin Names(relevant_exercises)

\* The inner loop is about to evaluate a slot.
SlotOpen ==
    /\ pc = "generate"
    /\ group < args.groups
    /\ slot <= Len(args.types)

\* The places of the pool whose exercise has the type of the current slot
\* and passes the level and the category filter.
Candidates ==
    {i \in DOMAIN relevant_exercises :
        /\ relevant_exercises[i].exercise_type = args.types[slot]
        /\ filter_by_level(relevant_exercises[i], args.level)
        /\ filter_by_category(relevant_exercises[i], group, args.level,
                              args.types[slot])}

\* C14: a slot with a candidate picks exactly one exercise, and it is the
\* first element in the pool's current order whose type is the slot's type
\* and which passes the level and the category filter; so no exercise of a
\* type that was not requested is ever picked.
C14_FirstMatchPicked ==
    [][(SlotOpen /\ Candidates # {}) =>
          LET first == CHOOSE i \in Candidates : \A j \in Candidates : i <= j
              e == relevant_exercises[first]
          IN  /\ Len(picks') = Len(picks) + 1
              /\ SubSeq(picks', 1, Len(picks)) = picks
              /\ picks'[Len(picks')].name = e.name
              /\ picks'[Len(picks')].group = group
              /\ picks'[Len(picks')].slot = slot
              /\ Len(workout') = Len(workout) + 1
              /\ SubSeq(workout', 1, Len(workout)) = workout
              /\ workout'[Len(workout')].name = to_title_case(e.name)
              /\ e.exercise_type \in Range(args.types)]_vars

\* The first pick of a group was made past an exercise at the head of the
\* pool that is of another type than the requested ones.
C14_Witness ==
    /\ pc = "generate"
    /\ Len(exercises_to_remove) = 1
    /\ Len(relevant_exercises) >= 2
    /\ relevant_exercises[1].exercise_type \notin Range(args.types)
    /\ relevant_exercises[1].name # exercises_to_remove[1]
    /\ picks[Len(picks)].name = exercises_to_remove[1]

\* C15: the workout file and the snooze file are written only at the end of
\* a generation that succeeded. Loading and generating write nothing, and a
\* run only aborts (a source that fails to load, an empty cooldown pool)
\* while loading or generating, so an aborted run leaves both files as they
\* were; and the snooze file is written only after the workout file of the
\* same run.
C15_PersistAtEndOnly ==
    [][/\ pc \in {"idle", "generate"}
            => (workoutFile' = workoutFile /\ snoozedFile' = snoozedFile)
       /\ pc' \in {"failed", "panicked"}
            => /\ pc \in {"idle", "generate"}
               /\ workoutFile' = workoutFile
               /\ snoozedFile' = snoozedFile
       /\ workoutFile' # workoutFile
            => /\ pc = "save_workout"
               /\ EndsWithCooldown(workout, picks)
               /\ workoutFile' = workout
               /\ snoozedFile' = snoozedFile
       /\ snoozedFile' # snoozedFile
            => /\ pc = "update_snoozed"
               /\ workoutFile = workout
               /\ workoutFile' = workoutFile
               /\ pc' = "done"]_vars

\* The second run panicked after it had made a pick: the files are those the
\* first run wrote, and the picks of the second run are in neither.
C15_Witness ==
    /\ pc = "panicked"
    /\ picks # <<>>
    /\ workoutFile # <<>>
    /\ workoutFile # workout
    /\ snoozedFile = WriteSnoozed(loaded)
    /\ snoozedFile # WriteSnoozed(snoozed_exercises)

\* ------------------------------------------- the four push exercises run

\* push.csv with two Primary, one Secondary and one Accessory exercise, all
\* Intermediate.
FourPush ==
    << Exercise("push_up", "Push", "Primary", "Intermediate", "Reps", TRUE,
                Some("Strength")),
       Exercise("pike_push_up", "Push", "Primary", "Intermediate", "Reps",
                TRUE, None),
       Exercise("dip", "Push", "Secondary", "Intermediate", "Reps", FALSE,
                None),
       Exercise("wall_slide", "Push", "Accessory", "Intermediate", "Reps",
                TRUE, Some("Mobility")) >>

\* The cooldown.csv files of that run; the last one names an exercise as
\* push.csv does.
FourPushCooldowns ==
    { << Exercise("walk", "Cooldown", "Primary", "Intermediate", "Distance",
                  TRUE, None) >>,
      << Exercise("walk", "Cooldown", "Primary", "Intermediate", "Distance",
                  TRUE, None),
         Exercise("stretch", "Cooldown", "Secondary", "Beginner", "Time",
                  TRUE, Some("Mobility")) >>,
      << Exercise("wall_slide", "Cooldown", "Accessory", "Beginner", "Time",
                  TRUE, Some("Mobility")) >> }

FourPushCatalogs ==
    {[t \in ExerciseType |->
        CASE t = "Push" -> FourPush
          [] t = "Cooldown" -> c
          [] OTHER -> <<>>] : c \in FourPushCooldowns}

\* --types push --groups 3 --level intermediate --bodyweight false
FourPushRequests ==
    {[types |-> <<"Push">>, level |-> "Intermediate", groups |-> 3,
      bodyweight |-> FALSE]}

InitFourPush ==
    /\ now = ClockStart
    /\ catalog \in FourPushCatalogs
    /\ pc = "idle"
    /\ probe = NoProbe
    /\ verdict = None
    /\ Idle

NextFourPush ==
    \/ Start(FourPushRequests)
    \/ PickSlot
    \/ EndGroup
    \/ AddCooldown
    \/ save_workout
    \/ update_snoozed_exercises

SpecFourPush == InitFourPush /\ [][NextFourPush]_vars

\* Single runs over both families of libraries: the small libraries with any
\* request, and the four push exercises with their request.
InitPicks == Init \/ InitFourPush

RequestsFor(c) ==
    IF c \in FourPushCatalogs THEN FourPushRequests ELSE Requests

NextPicks ==
    \/ Start(RequestsFor(catalog))
    \/ LoadFail
    \/ PickSlot
    \/ EndGroup
    \/ AddCooldown
    \/ CooldownPanic
    \/ save_workout
    \/ update_snoozed_exercises

SpecPicks == InitPicks /\ [][NextPicks]_vars

\* The category the library gives the exercise of a pick.
CategoryOf(p) ==
    LET file == catalog[p.type]
        i == CHOOSE i \in DOMAIN file : file[i].name = p.name
    IN  file[i].exercise_category

\* C11: with exactly the four Push exercises in the pool, in any order, a
\* non-empty cooldown pool, types = [Push], groups = 3 and level =
\* Intermediate, the workout has exactly 5 rows with pairwise distinct names:
\* the Skill Block, a Primary pick at g = 0, a Primary or Secondary pick at
\* g = 1, a Secondary or Accessory pick at g = 2, and one cooldown row.
C11_FourPushWorkout ==
    Completed =>
        /\ Len(workout) = 5
        /\ Len(picks) = 4
        /\ workout[1] = SkillBlock
        /\ \A i, j \in DOMAIN workout : i # j => workout[i].name # workout[j].name
        /\ \A i, j \in DOMAIN picks : i # j => picks[i].name # picks[j].name
        /\ \A i \in 1..3 : picks[i].kind = "strength" /\ picks[i].group = i - 1
        /\ CategoryOf(picks[1]) = "Primary"
        /\ CategoryOf(picks[2]) \in {"Primary", "Secondary"}
        /\ CategoryOf(picks[3]) \in {"Secondary", "Accessory"}
        /\ picks[4].kind = "cooldown"

====
